---------------------------- MODULE Spec2Model ----------------------------
(***************************************************************************)
(* A model of theano/sandbox/scan.py: the Scan op (construction, the       *)
(* forward executor Scan.perform / Scan.scan, Scan.grad) and the reverse   *)
(* executor ScanGrad.perform.                                              *)
(*                                                                         *)
(* Arrays are TLA+ sequences; the code's 0-based row k of an array a is    *)
(* a[k+1].  A time slice is one integer (sequences and seed arrays are     *)
(* one-dimensional).  Tap maps are functions from 0-based indices to tap   *)
(* lists, as the code's dictionaries.                                      *)
(***************************************************************************)
EXTENDS Integers, Sequences, FiniteSets, TLC

VARIABLES
    pc,        \* "new" | "built" | "loop" | "done" | "error" | "gloop" | "gdone" | "compared" | "scanned"
    op,        \* the Scan instance's fields (self.*), NoOp before construction
    err,       \* the exception that ended the last handler: [exc, line]
    input,     \* the argument arrays as the caller passed them to perform
    seqs,      \* the sequence buffers of the running perform (args[1..n_seqs])
    seeds,     \* the seed arrays after perform's normalisation (line 455)
    n_steps,   \* the resolved number of steps (self.n_steps)
    i,         \* the loop counter of Scan.scan / ScanGrad.perform
    y,         \* Scan.scan's output buffers, one per output
    calls,     \* the argument lists the step evaluator was invoked with
    warns,     \* the kinds of warning logged by the running perform
    outs,      \* perform's output storage (outs[i][0]), NoOuts before the return
    prev,      \* the previous completed run, NoRun when there is none
    g,         \* the reverse executor's locals, NoGrad when it is not running
    cmp,       \* the latest comparison of op with another Scan, NoCmp before it
    sc         \* scan()'s default tap dictionaries and its latest call

vars == <<pc, op, err, input, seqs, seeds, n_steps, i, y, calls, warns, outs, prev, g, cmp, sc>>

(***************************************************************************)
(* Bounds of the model.                                                    *)
(***************************************************************************)
MaxLen == 4          \* rows of an input sequence
MaxSteps == 3        \* the explicit step count args[0]

\* Row values of the input sequences: sequence j of length L holds the first
\* L values of SeqData, plus 10*j.  [2,3,1,4] is the spec's example.
SeqData == <<2, 3, 1, 4, 6, 5, 9, 8>>
SeedData == <<1, 5, 7>>
Garbage == {-77, -99}    \* what numpy.empty's uninitialised cells may hold

NoOp == [n_seqs |-> -1]
NoErr == [exc |-> "", line |-> 0]
NoRun == [none |-> TRUE]
NoOuts == <<>>
NoGrad == [kind |-> "none"]
NoInput == [none |-> TRUE]
NoCmp == [none |-> TRUE]
NoCall == [none |-> TRUE]

Exc(e, l) == [exc |-> e, line |-> l]

(***************************************************************************)
(* Helpers: min, max, sums over tap lists and arrays.                      *)
(***************************************************************************)
Range(s) == {s[x] : x \in DOMAIN s}
MinOf(s) == CHOOSE x \in Range(s) : \A z \in Range(s) : x <= z
MaxOf(s) == CHOOSE x \in Range(s) : \A z \in Range(s) : x >= z
MinInt(a, b) == IF a <= b THEN a ELSE b
Abs(a) == IF a < 0 THEN -a ELSE a

RECURSIVE SumSeq(_)
SumSeq(s) == IF s = <<>> THEN 0 ELSE s[1] + SumSeq(Tail(s))

RECURSIVE ProdSeq(_)
ProdSeq(s) == IF s = <<>> THEN 1 ELSE s[1] * ProdSeq(Tail(s))

\* numpy's a[k]: rows -len..-1 wrap around, anything else is an IndexError.
InRange(a, k) == -Len(a) <= k /\ k < Len(a)
Row(a, k) == IF k >= 0 THEN a[k + 1] ELSE a[Len(a) + k + 1]

(***************************************************************************)
(* The step evaluator self.fn (theano.function(inputs, outputs)), opaque   *)
(* to the op: a pure function of the argument list, one value per output.  *)
(* nsa is the number of leading arguments that are sequence slices.        *)
(***************************************************************************)
FnKinds == {"sum", "sum1", "prod", "map"}

FnOut(kind, a, nsa, j) ==
    CASE kind = "sum"  -> SumSeq(a) + j
      [] kind = "sum1" -> SumSeq(a) + 1 + j
      [] kind = "prod" -> ProdSeq(a) + j
      [] kind = "map"  -> 2 * SumSeq(SubSeq(a, 1, nsa)) + 1 + j

Fn(kind, a, nsa, n_outs) == [j \in 1..n_outs |-> FnOut(kind, a, nsa, j - 1)]

(***************************************************************************)
(* Scan.__init__ (lines 242-347).  A configuration c has the fields the    *)
(* constructor stores on self; c.fn stands for the compiled pair           *)
(* (inputs, outputs).  Dictionaries are iterated in ascending key order    *)
(* (CPython's order for small integer keys).                               *)
(***************************************************************************)
Cfg(ns, no, st, ot, keep, im, ip, gb, tg, fn) ==
    [n_seqs |-> ns, n_outs |-> no, seqs_taps |-> st, outs_taps |-> ot,
     keep_outputs |-> keep, inplace_map |-> im, inplace |-> ip,
     go_backwards |-> gb, truncate_gradient |-> tg, fn |-> fn]

\* InplaceEntryCheck without the test of the aliased sequence's taps
InplaceEntryCheck_NoPastTapTest(c, o, s) ==
    IF o > c.n_outs THEN Exc("ValueError", 278)
    ELSE IF s > c.n_seqs THEN Exc("ValueError", 281)
    ELSE NoErr

\* lines 276-285: one entry (_out, _in) of the inplace map
InplaceEntryCheck(c, o, s) ==
    IF o > c.n_outs THEN Exc("ValueError", 278)
    ELSE IF s > c.n_seqs THEN Exc("ValueError", 281)
    ELSE IF s >= 0 /\ s \notin DOMAIN c.seqs_taps THEN Exc("KeyError", 283)
    ELSE IF s >= 0 /\ MinOf(c.seqs_taps[s]) < 0 THEN Exc("ValueError", 284)
    ELSE NoErr

\* lines 289-292: one entry of seqs_taps
SeqTapsEntryCheck(c, k) ==
    IF k > c.n_seqs THEN Exc("ValueError", 291) ELSE NoErr

\* OutTapsEntryCheck letting the current offset 0 through
OutTapsEntryCheck_FutureOnly(c, k) ==
    IF k > c.n_outs THEN Exc("ValueError", 297)
    ELSE IF MaxOf(c.outs_taps[k]) > 0 THEN Exc("ValueError", 300)
    ELSE NoErr

\* lines 295-301: one entry of outs_taps
OutTapsEntryCheck(c, k) ==
    IF k > c.n_outs THEN Exc("ValueError", 297)
    ELSE IF MaxOf(c.outs_taps[k]) > -1 THEN Exc("ValueError", 300)
    ELSE NoErr

MinKey(keys) == CHOOSE x \in keys : \A z \in keys : x <= z

\* lines 276-285: the loop over the inplace map; the first failing entry raises
InplaceCheck(c) ==
    LET bad == {o \in DOMAIN c.inplace_map :
                   InplaceEntryCheck(c, o, c.inplace_map[o]) # NoErr}
    IN IF bad = {} THEN NoErr
       ELSE InplaceEntryCheck(c, MinKey(bad), c.inplace_map[MinKey(bad)])

\* lines 289-292: the loop over seqs_taps
SeqTapsCheck(c) ==
    LET bad == {k \in DOMAIN c.seqs_taps : SeqTapsEntryCheck(c, k) # NoErr}
    IN IF bad = {} THEN NoErr ELSE SeqTapsEntryCheck(c, MinKey(bad))

\* lines 295-301: the loop over outs_taps
OutTapsCheck(c) ==
    LET bad == {k \in DOMAIN c.outs_taps : OutTapsEntryCheck(c, k) # NoErr}
    IN IF bad = {} THEN NoErr ELSE OutTapsEntryCheck(c, MinKey(bad))

\* lines 275-301: the exception the constructor raises, NoErr when it builds
InitCheck(c) ==
    IF InplaceCheck(c) # NoErr THEN InplaceCheck(c)
    ELSE IF SeqTapsCheck(c) # NoErr THEN SeqTapsCheck(c)
    ELSE OutTapsCheck(c)

(***************************************************************************)
(* Scan.perform, lines 417-440: the number of steps.                       *)
(***************************************************************************)
\* lines 430-433: the usable length of one tapped sequence
SeqLen(taps, len) ==
    LET l == len + MinOf(taps)
    IN IF MaxOf(taps) > 0 THEN l - MaxOf(taps) ELSE l

\* lines 426-440: the loop over the sequences from index k on; r is
\* [n |-> n_steps so far, warned |-> a length warning was logged]
RECURSIVE ResolveFrom(_, _, _, _)
ResolveFrom(c, lens, k, r) ==
    IF k >= c.n_seqs THEN r
    ELSE IF k \notin DOMAIN c.seqs_taps THEN ResolveFrom(c, lens, k + 1, r)
    ELSE LET seq_len == SeqLen(c.seqs_taps[k], lens[k + 1])
             n1 == IF r.n = 0 THEN seq_len ELSE r.n
             r2 == IF seq_len # n1
                   THEN [n |-> MinInt(seq_len, n1), warned |-> TRUE]
                   ELSE [n |-> n1, warned |-> r.warned]
         IN ResolveFrom(c, lens, k + 1, r2)

\* lines 417-440: n_steps starts as args[0] (0 when none is given)
ResolveSteps(c, n0, lens) ==
    ResolveFrom(c, lens, 0, [n |-> n0, warned |-> FALSE])

(***************************************************************************)
(* Scan.perform, lines 444-461: the local inplace map and the seeds.       *)
(* An input seed is [dim, rows]: dim 0 is a scalar (rows holds its one     *)
(* value), dim 1 an array with one row per past time step.                 *)
(***************************************************************************)
EmptyMap == [x \in {} |-> 0]

\* LocalInplaceMap without the test of self.inplace
LocalInplaceMap_Always(c) == c.inplace_map

\* lines 445-447
LocalInplaceMap(c) == IF c.inplace THEN c.inplace_map ELSE EmptyMap

\* lines 454-455: numpy.array([seed]) puts a time axis of one row in front
NormSeed(c, j, sd) ==
    IF j \in DOMAIN c.outs_taps /\ c.outs_taps[j] = <<-1>>
    THEN [dim |-> sd.dim + 1, rows |-> sd.rows]
    ELSE sd

\* lines 457-461 for output j: shape[0] of a scalar is an IndexError; the
\* warning's message reads self.n_iterable, which no Scan has
SeedEntryCheck(c, j, sd) ==
    IF j \notin DOMAIN c.outs_taps THEN NoErr
    ELSE IF NormSeed(c, j, sd).dim = 0 THEN Exc("IndexError", 458)
    ELSE IF Len(sd.rows) < Abs(MinOf(c.outs_taps[j])) - 1
         THEN Exc("AttributeError", 461)
    ELSE NoErr

\* lines 451-461: the loop over the outputs
SeedCheck(c, sds) ==
    LET bad == {j \in 0..(c.n_outs - 1) : SeedEntryCheck(c, j, sds[j + 1]) # NoErr}
    IN IF bad = {} THEN NoErr ELSE SeedEntryCheck(c, MinKey(bad), sds[MinKey(bad) + 1])

(***************************************************************************)
(* Scan.scan, lines 478-492: the output buffers.  A buffer is              *)
(* [alias, buf]: alias >= 0 names the entry of args (sequences, then       *)
(* seeds) the output shares its memory with, and buf is the output's own   *)
(* memory otherwise; uninit is the set of its cells that numpy.empty left  *)
(* uninitialised and no step has written.                                  *)
(***************************************************************************)
Own(buf) == [alias |-> -1, buf |-> buf, uninit |-> {}]
Empty(len) == [alias |-> -1, buf |-> [x \in 1..len |-> 0], uninit |-> 1..len]

\* lines 480-492 for output j
AllocOut(c, im, j, n) ==
    IF j \in DOMAIN im /\ im[j] >= 0
    THEN [alias |-> im[j], buf |-> <<>>, uninit |-> {}]
    ELSE IF c.keep_outputs[j + 1] < 1 THEN Empty(n)
    ELSE IF c.keep_outputs[j + 1] = 1 THEN Empty(1)
    ELSE Empty(c.keep_outputs[j + 1])

\* line 491: numpy.empty refuses a negative dimension
AllocCheck(c, im, n) ==
    IF \E j \in 0..(c.n_outs - 1) :
          /\ ~(j \in DOMAIN im /\ im[j] >= 0)
          /\ c.keep_outputs[j + 1] < 1
          /\ n < 0
    THEN Exc("ValueError", 491) ELSE NoErr

\* the entry k of Scan.scan's args: the sequences, then the seeds
ArgBuf(c, sq, sd, k) ==
    IF k < c.n_seqs THEN sq[k + 1] ELSE sd[k - c.n_seqs + 1].rows

\* the memory of output buffer b
BufOf(c, sq, sd, b) == IF b.alias >= 0 THEN ArgBuf(c, sq, sd, b.alias) ELSE b.buf

(***************************************************************************)
(* Scan.scan, lines 506-557: one iteration of the step loop.               *)
(***************************************************************************)
\* the (index, tap) pairs of a tap map in the order the loops visit them
RECURSIVE SlotsFrom(_, _, _)
SlotsFrom(taps, j, n) ==
    IF j >= n THEN <<>>
    ELSE (IF j \in DOMAIN taps
          THEN [x \in 1..Len(taps[j]) |-> [j |-> j, tap |-> taps[j][x]]]
          ELSE <<>>) \o SlotsFrom(taps, j + 1, n)

Slots(taps, n) == SlotsFrom(taps, 0, n)

\* EffIndex ignoring go_backwards
EffIndex_AlwaysForward(c, n, ii) == ii

\* lines 511-513: the row of the sequences step ii works at
EffIndex(c, n, ii) == IF c.go_backwards THEN n - 1 - ii ELSE ii

\* SeqRowIndex one row too far
SeqRowIndex_OffByOne(c, n, ii, j, tap) ==
    (IF c.go_backwards THEN n - 1 - ii ELSE ii) - MinOf(c.seqs_taps[j]) + tap + 1

\* line 519: the row of sequence j read for one tap
SeqRowIndex(c, n, ii, j, tap) == EffIndex(c, n, ii) - MinOf(c.seqs_taps[j]) + tap

\* A read is [err, v, warn]: the exception it raises, or its value.
Val(v) == [err |-> NoErr, v |-> v, warn |-> FALSE]
Fail(e) == [err |-> e, v |-> 0, warn |-> FALSE]

\* SeqRead taking the row of loop step ii whatever the direction
SeqRead_Forward(c, sq, n, ii, j, tap) ==
    LET k == ii - MinOf(c.seqs_taps[j]) + tap
    IN IF -Len(sq[j + 1]) <= k /\ k < Len(sq[j + 1])
       THEN [err |-> NoErr, v |-> Row(sq[j + 1], k), warn |-> FALSE]
       ELSE [err |-> Exc("IndexError", 520), v |-> 0, warn |-> FALSE]

\* lines 519-520: the slice of sequence j for one tap
SeqRead(c, sq, n, ii, j, tap) ==
    LET k == SeqRowIndex(c, n, ii, j, tap)
    IN IF InRange(sq[j + 1], k) THEN Val(Row(sq[j + 1], k))
       ELSE Fail(Exc("IndexError", 520))

\* OutRead taking the running output at row ii instead of row ii + tap
OutRead_CurrentRow(c, sq, sd, yy, ii, j, tap) ==
    LET sz == Len(sd[j + 1].rows)
        k == ii + sz + tap
        buf == IF yy[j + 1].alias >= 0
               THEN (IF yy[j + 1].alias < c.n_seqs THEN sq[yy[j + 1].alias + 1]
                     ELSE sd[yy[j + 1].alias - c.n_seqs + 1].rows)
               ELSE yy[j + 1].buf
    IN IF ii + tap < 0
       THEN IF k < 0
            THEN IF sz = 0 THEN [err |-> Exc("IndexError", 534), v |-> 0, warn |-> FALSE]
                 ELSE [err |-> NoErr, v |-> 0, warn |-> TRUE]
            ELSE [err |-> NoErr, v |-> sd[j + 1].rows[k + 1], warn |-> FALSE]
       ELSE IF c.keep_outputs[j + 1] < 1
            THEN IF ii < Len(buf)
                 THEN [err |-> NoErr, v |-> buf[ii + 1], warn |-> FALSE]
                 ELSE [err |-> Exc("IndexError", 541), v |-> 0, warn |-> FALSE]
            ELSE IF c.keep_outputs[j + 1] = 1
                 THEN [err |-> NoErr, v |-> buf[1], warn |-> FALSE]
                 ELSE [err |-> Exc("NotImplementedError", 545), v |-> 0, warn |-> FALSE]

\* lines 530-545: the slice of output j for one tap
OutRead(c, sq, sd, yy, ii, j, tap) ==
    LET sz == Len(sd[j + 1].rows)
        k == ii + sz + tap
        buf == BufOf(c, sq, sd, yy[j + 1])
    IN IF ii + tap < 0
       THEN IF k < 0
            THEN IF sz = 0 THEN Fail(Exc("IndexError", 534))
                 ELSE [err |-> NoErr, v |-> 0, warn |-> TRUE]
            ELSE Val(Row(sd[j + 1].rows, k))
       ELSE IF c.keep_outputs[j + 1] < 1
            THEN IF InRange(buf, ii + tap) THEN Val(Row(buf, ii + tap))
                 ELSE Fail(Exc("IndexError", 541))
            ELSE IF c.keep_outputs[j + 1] = 1
                 THEN Val(buf[1])
                 ELSE Fail(Exc("NotImplementedError", 545))

\* lines 514-545: every read of step ii, in the order fn_args is built
Reads(c, sq, sd, yy, n, ii) ==
    LET ss == Slots(c.seqs_taps, c.n_seqs)
        os == Slots(c.outs_taps, c.n_outs)
    IN [x \in 1..Len(ss) |-> SeqRead(c, sq, n, ii, ss[x].j, ss[x].tap)]
       \o [x \in 1..Len(os) |-> OutRead(c, sq, sd, yy, ii, os[x].j, os[x].tap)]

\* the first exception among the reads, NoErr when there is none
ReadErr(rs) ==
    LET bad == {x \in 1..Len(rs) : rs[x].err # NoErr}
    IN IF bad = {} THEN NoErr ELSE rs[MinKey(bad)].err

\* FnArgs with the non-sequence arguments in front
FnArgs_NonSeqsFirst(rs, non_seqs) == non_seqs \o [x \in 1..Len(rs) |-> rs[x].v]

\* lines 507-547: fn_args, once every read succeeded
FnArgs(rs, non_seqs) == [x \in 1..Len(rs) |-> rs[x].v] \o non_seqs

\* the number of sequence slices in fn_args
NumSeqArgs(c) == Len(Slots(c.seqs_taps, c.n_seqs))

\* lines 551-557 from output j on: st is [seqs, seeds, y, err]
RECURSIVE UpdateFrom(_, _, _, _, _)
UpdateFrom(c, st, ii, j, something) ==
    IF j >= c.n_outs \/ st.err # NoErr THEN st
    ELSE LET b == st.y[j + 1]
             v == something[j + 1]
             keep == c.keep_outputs[j + 1]
             buf == BufOf(c, st.seqs, st.seeds, b)
             st2 ==
               IF keep < 1
               THEN IF ~InRange(buf, ii) THEN [st EXCEPT !.err = Exc("IndexError", 553)]
                    ELSE IF b.alias < 0
                         THEN [st EXCEPT !.y[j + 1].buf[ii + 1] = v,
                                         !.y[j + 1].uninit = @ \ {ii + 1}]
                    ELSE IF b.alias < c.n_seqs
                         THEN [st EXCEPT !.seqs[b.alias + 1][ii + 1] = v]
                    ELSE [st EXCEPT !.seeds[b.alias - c.n_seqs + 1].rows[ii + 1] = v]
               ELSE IF keep = 1 THEN [st EXCEPT !.y[j + 1] = Own(<<v>>)]
               ELSE [st EXCEPT !.err = Exc("NotImplementedError", 557)]
         IN UpdateFrom(c, st2, ii, j + 1, something)

\* lines 551-557
Update(c, sq, sd, yy, ii, something) ==
    UpdateFrom(c, [seqs |-> sq, seeds |-> sd, y |-> yy, err |-> NoErr], ii, 0, something)

(***************************************************************************)
(* Scan.__eq__ and Scan.__hash__ (lines 376-410) and                       *)
(* hash_listsDictsTuples (lines 50-64).  Hash values are HashBits-wide     *)
(* two's-complement integers.  A theano variable is an integer token that  *)
(* is its own hash; variables compare by identity.                         *)
(***************************************************************************)
HashBits == 8

\* hash values wrap around like a machine word
Wrap(a) ==
    LET m == 2 ^ HashBits
        u == a % m
    IN IF u >= m \div 2 THEN u - m ELSE u

RECURSIVE XorBits(_, _, _)
XorBits(a, b, w) ==
    IF w = 0 THEN 0
    ELSE (((a % 2) + (b % 2)) % 2) + 2 * XorBits(a \div 2, b \div 2, w - 1)

\* a combinator that depends on the order of its operands
Xor_Ordered(a, b) == Wrap(2 * a + b)

\* Python's a ^ b
Xor(a, b) == Wrap(XorBits(a % (2 ^ HashBits), b % (2 ^ HashBits), HashBits))

\* hash_value ^= ... for every element of s, in the order of s
RECURSIVE XorFrom(_, _)
XorFrom(h, s) == IF s = <<>> THEN h ELSE XorFrom(Xor(h, s[1]), Tail(s))

\* line 61: hash(x) of an integer (hash(-1) is -2) and of a boolean
PyHash(x) == IF x = -1 THEN -2 ELSE x
HashBool(b) == IF b THEN 1 ELSE 0

\* lines 56-58: a list of integers or of variables
hash_listsDictsTuples_list(l) == XorFrom(0, [x \in 1..Len(l) |-> PyHash(l[x])])

\* lines 52-55: a dictionary of lists, its keys iterated in the order ord
hash_listsDictsTuples_dict(d, ord) ==
    XorFrom(0, [x \in 1..(2 * Len(ord)) |->
                   IF (x % 2) = 1 THEN PyHash(ord[(x + 1) \div 2])
                   ELSE hash_listsDictsTuples_list(d[ord[x \div 2]])])

\* the orders a dictionary's keys may be iterated in
KeyOrders(d) ==
    {p \in [1..Cardinality(DOMAIN d) -> DOMAIN d] :
        \A a, b \in DOMAIN p : a # b => p[a] # p[b]}

\* the variables of the step function's graph: self.inputs, self.outputs
FnId(fn) ==
    CASE fn = "sum" -> 1 [] fn = "sum1" -> 2 [] fn = "prod" -> 3 [] fn = "map" -> 4
Inputs(c) == <<10 * FnId(c.fn)>>
Outputs(c) == [j \in 1..c.n_outs |-> 10 * FnId(c.fn) + j]

\* lines 324-347: g_y and g_args are variables the constructor creates, so
\* they differ between two instances (inst is the instance's number)
G_ins(c, inst) == [j \in 1..c.n_outs |-> 60 + 10 * inst + j] \o Inputs(c)
G_outs(c, inst) == <<90 + inst>>
N_args(c) == c.n_seqs + c.n_outs + 1

\* hash(type(self))
HashType == 21

\* lines 376-392, type(self) == type(other) being true of two Scans
ScanEq(c1, inst1, c2, inst2) ==
    /\ Inputs(c1) = Inputs(c2)
    /\ Outputs(c1) = Outputs(c2)
    /\ c1.keep_outputs = c2.keep_outputs
    /\ G_ins(c1, inst1) = G_ins(c2, inst2)
    /\ G_outs(c1, inst1) = G_outs(c2, inst2)
    /\ c1.seqs_taps = c2.seqs_taps
    /\ c1.outs_taps = c2.outs_taps
    /\ c1.inplace_map = c2.inplace_map
    /\ c1.n_seqs = c2.n_seqs
    /\ c1.inplace = c2.inplace
    /\ c1.go_backwards = c2.go_backwards
    /\ c1.truncate_gradient = c2.truncate_gradient
    /\ c1.n_outs = c2.n_outs
    /\ N_args(c1) = N_args(c2)

\* lines 396-410; so and oo are the orders seqs_taps and outs_taps iterate in
ScanHash(c, inst, so, oo) ==
    XorFrom(HashType,
            <<PyHash(c.n_seqs), PyHash(c.n_outs), HashBool(c.inplace),
              HashBool(c.go_backwards), PyHash(c.truncate_gradient),
              PyHash(N_args(c)),
              hash_listsDictsTuples_list(Outputs(c)),
              hash_listsDictsTuples_list(Inputs(c)),
              hash_listsDictsTuples_list(G_ins(c, inst)),
              hash_listsDictsTuples_list(G_outs(c, inst)),
              hash_listsDictsTuples_dict(c.seqs_taps, so),
              hash_listsDictsTuples_dict(c.outs_taps, oo),
              hash_listsDictsTuples_list(c.keep_outputs)>>)

(***************************************************************************)
(* The configurations and arguments the model explores.                    *)
(***************************************************************************)
SeqTapLists == {<<0>>, <<-1>>, <<1>>, <<-1, 1>>}
PairTapLists == {<<0>>, <<-1>>}
OutTapLists == {<<-1>>, <<-2>>, <<-2, -1>>}
Depths == {-1, 0, 1, 2, 3}

TapMaps(n, lists) == UNION {[D -> lists] : D \in SUBSET (0..(n - 1))}
AllTapped(n) == [j \in 0..(n - 1) |-> <<0>>]
Dirs(ns) == IF ns = 0 THEN {FALSE} ELSE BOOLEAN

\* every sequence tap map over zero to two sequences, one accumulating state
TapCfgs ==
    UNION {{Cfg(ns, 1, st, 0 :> <<-1>>, <<0>>, EmptyMap, FALSE, gb, -1, "sum")
              : st \in TapMaps(ns, IF ns = 2 THEN PairTapLists ELSE SeqTapLists),
                gb \in Dirs(ns)} : ns \in 0..2}

\* every state tap list and retention policy of one output
StateCfgs ==
    UNION {{Cfg(ns, 1, AllTapped(ns), ot, <<keep>>, EmptyMap, FALSE, gb, -1, "sum")
              : ot \in {EmptyMap} \cup {0 :> t : t \in OutTapLists},
                keep \in {0, 1, 2}, gb \in Dirs(ns)} : ns \in 0..1}

\* every step evaluator
FnCfgs ==
    UNION {{Cfg(ns, 1, AllTapped(ns), 0 :> <<-1>>, <<0>>, EmptyMap, FALSE, gb, -1, fn)
              : fn \in (IF ns = 2 THEN {"map"} ELSE FnKinds),
                gb \in Dirs(ns)} : ns \in 0..2}

\* inplace alias maps, over one sequence and over two
AliasCfgs ==
    {Cfg(1, 1, 0 :> t, 0 :> <<-1>>, <<0>>, im, ip, gb, -1, "sum")
        : t \in {<<0>>, <<-1, 0>>, <<0, 1>>},
          im \in {0 :> 0, 0 :> -1, 0 :> 1, 1 :> 0, 2 :> 0},
          ip \in BOOLEAN, gb \in BOOLEAN}
    \cup
    {Cfg(2, 2, st, (0 :> <<-1>>) @@ (1 :> <<-1>>), <<0, 0>>,
         (0 :> 1) @@ (1 :> 0), FALSE, FALSE, -1, "sum")
        : st \in {(0 :> <<-1, 0>>) @@ (1 :> <<0>>), 0 :> <<-1, 0>>, 1 :> <<-1>>}}

\* every truncation depth
GradCfgs ==
    {Cfg(ns, 1, AllTapped(ns), 0 :> t, <<0>>, EmptyMap, FALSE, FALSE, d, fn)
        : ns \in 0..1, t \in {<<-1>>, <<-2, -1>>}, d \in Depths,
          fn \in {"sum1", "prod"}}

\* tap-map keys and alias targets at and past the ends of the valid ranges
RangeCfgs ==
    {Cfg(1, 1, (0 :> <<0>>) @@ (k :> <<0>>), 0 :> <<-1>>, <<0>>, EmptyMap,
         FALSE, FALSE, -1, "sum") : k \in {-1, 1, 2}}
    \cup
    {Cfg(1, 1, 0 :> <<0>>, (0 :> <<-1>>) @@ (k :> <<-1>>), <<0>>, EmptyMap,
         FALSE, FALSE, -1, "sum") : k \in {-1, 1, 2}}
    \cup
    {Cfg(1, 1, (0 :> <<0>>) @@ (1 :> <<0>>), 0 :> <<-1>>, <<0>>, 0 :> 1,
         TRUE, FALSE, -1, "sum")}

\* state tap lists that hold a current or a future offset
FutureTapCfgs ==
    {Cfg(ns, 1, AllTapped(ns), ot, <<0>>, EmptyMap, FALSE, FALSE, -1, "sum")
        : ns \in 0..1,
          ot \in {0 :> <<0>>, 0 :> <<-1, 0>>, 0 :> <<1>>,
                  (0 :> <<-1>>) @@ (1 :> <<0>>)}}

\* a state whose deepest tap lies three steps back
HistoryCfgs ==
    {Cfg(0, 1, EmptyMap, 0 :> t, <<0>>, EmptyMap, FALSE, FALSE, -1, "sum")
        : t \in {<<-3>>, <<-3, -1>>}}

Cfgs ==
    TapCfgs \cup StateCfgs \cup FnCfgs \cup AliasCfgs \cup GradCfgs
        \cup RangeCfgs \cup FutureTapCfgs \cup HistoryCfgs

\* the Scans op is compared with: one built from the same parameters, and
\* those that differ from it in one parameter
Others(c) ==
    {o \in {c,
            [c EXCEPT !.go_backwards = ~@],
            [c EXCEPT !.inplace = ~@],
            [c EXCEPT !.truncate_gradient = IF @ = -1 THEN 2 ELSE -1],
            [c EXCEPT !.keep_outputs = [j \in 1..c.n_outs |-> 1 - MinInt(@[j], 1)]],
            [c EXCEPT !.seqs_taps = IF @ = EmptyMap THEN 0 :> <<0>> ELSE EmptyMap],
            [c EXCEPT !.outs_taps = IF @ = EmptyMap THEN 0 :> <<-1>> ELSE EmptyMap],
            [c EXCEPT !.inplace_map = IF @ = EmptyMap THEN 0 :> -1 ELSE EmptyMap],
            [c EXCEPT !.n_seqs = @ + 1],
            [c EXCEPT !.n_outs = @ + 1, !.keep_outputs = Append(@, 0)],
            [c EXCEPT !.fn = IF @ = "sum" THEN "map" ELSE "sum"]}
        : InitCheck(o) = NoErr}

SeqInput(j, len) == [r \in 1..len |-> SeqData[r] + 10 * j]

SeedChoices(c, j) ==
    IF j \notin DOMAIN c.outs_taps THEN {[dim |-> 0, rows |-> <<0>>]}
    ELSE IF c.outs_taps[j] = <<-1>>
         THEN {[dim |-> 0, rows |-> <<IF c.fn = "prod" THEN 1 ELSE 0>>]}
    ELSE {[dim |-> 1, rows |-> SubSeq(SeedData, 1, m)]
             : m \in 0..Abs(MinOf(c.outs_taps[j]))}
         \cup {[dim |-> 0, rows |-> <<0>>]}

AllSeeds(c) == UNION {SeedChoices(c, j) : j \in 0..(c.n_outs - 1)}

\* the argument lists [n_steps | sequences | seeds | non-sequences] given
\* to an op built from c
ArgsFor(c) ==
    {[n0 |-> n, seqs |-> [j \in 1..c.n_seqs |-> SeqInput(j - 1, lens[j])],
      seeds |-> sd, non_seqs |-> ns]
        : n \in 0..MaxSteps,
          ns \in (IF c.n_seqs = 0 THEN {<<>>, <<5>>} ELSE {<<>>}),
          lens \in [1..c.n_seqs -> 0..MaxLen],
          sd \in {f \in [1..c.n_outs -> AllSeeds(c)]
                    : \A j \in 1..c.n_outs : f[j] \in SeedChoices(c, j - 1)}}

(***************************************************************************)
(* scan(), lines 66-236.  Its tap dictionaries map an index to              *)
(* [scalar, taps]: scalar tells that the caller gave a bare number instead *)
(* of a list.  The default values of sequences_taps and outputs_taps are   *)
(* two dictionaries created once, when the function is defined.            *)
(***************************************************************************)
MaxCalls == 3        \* calls of scan()
MaxSeqs == 2         \* sequences given to a call of scan()

Taps(l) == [scalar |-> FALSE, taps |-> l]
Scalar(v) == [scalar |-> TRUE, taps |-> <<v>>]

\* lines 174-181 (184-189 likewise) from index k on: a missing entry gets
\* the default, an empty list is deleted, a bare number is put in a list
RECURSIVE NormTapsFrom(_, _, _, _)
NormTapsFrom(d, k, n, default) ==
    IF k >= n THEN d
    ELSE IF k \notin DOMAIN d
         THEN NormTapsFrom(d @@ (k :> Taps(<<default>>)), k + 1, n, default)
    ELSE IF ~d[k].scalar /\ d[k].taps = <<>>
         THEN NormTapsFrom([x \in DOMAIN d \ {k} |-> d[x]], k + 1, n, default)
    ELSE IF d[k].scalar
         THEN NormTapsFrom([d EXCEPT ![k] = Taps(@.taps)], k + 1, n, default)
    ELSE NormTapsFrom(d, k + 1, n, default)

NormTaps(d, n, default) == NormTapsFrom(d, 0, n, default)

\* the dictionary as Scan.__init__ receives it
Plain(d) == [k \in DOMAIN d |-> d[k].taps]

\* an argument left out of the call, or the dictionary the caller passed
LeftOut == [given |-> FALSE, d |-> EmptyMap]
Given(d) == [given |-> TRUE, d |-> d]

SeqTapArgs ==
    {LeftOut, Given(0 :> Taps(<<-1, 0>>)), Given(0 :> Taps(<<>>)),
     Given(1 :> Scalar(1))}
OutTapArgs == {LeftOut, Given(0 :> Taps(<<-2>>))}

(***************************************************************************)
(* The state machine.                                                      *)
(***************************************************************************)
Init ==
    /\ pc = "new"
    /\ op = NoOp
    /\ err = NoErr
    /\ input = NoInput
    /\ seqs = <<>>
    /\ seeds = <<>>
    /\ n_steps = 0
    /\ i = 0
    /\ y = <<>>
    /\ calls = <<>>
    /\ warns = {}
    /\ outs = NoOuts
    /\ prev = NoRun
    /\ g = NoGrad
    /\ cmp = NoCmp
    /\ sc = [sequences_taps |-> EmptyMap, outputs_taps |-> EmptyMap,
             ncalls |-> 0, last |-> NoCall]

\* Scan.__init__, lines 242-347
Construct(c) ==
    /\ pc = "new"
    /\ op' = c
    /\ err' = InitCheck(c)
    /\ pc' = IF InitCheck(c) = NoErr THEN "built" ELSE "error"
    /\ UNCHANGED <<input, seqs, seeds, n_steps, i, y, calls, warns, outs, prev, g, cmp, sc>>

\* Scan.perform up to the step loop of Scan.scan: lines 417-466, 478-504
Perform(a) ==
    /\ pc = "built"
    /\ IF prev = NoRun THEN TRUE ELSE a = prev.input
    /\ LET lens == [j \in 1..op.n_seqs |-> Len(a.seqs[j])]
           r == ResolveSteps(op, a.n0, lens)
           sd == [j \in 1..op.n_outs |-> NormSeed(op, j - 1, a.seeds[j])]
           im == LocalInplaceMap(op)
           e == IF op.n_seqs = 0 /\ a.n0 = 0 THEN Exc("ValueError", 419)
                ELSE IF SeedCheck(op, a.seeds) # NoErr THEN SeedCheck(op, a.seeds)
                ELSE AllocCheck(op, im, r.n)
           resolved == ~(op.n_seqs = 0 /\ a.n0 = 0)
           stored == resolved /\ SeedCheck(op, a.seeds) = NoErr
       IN /\ input' = a
          /\ seqs' = a.seqs
          /\ seeds' = sd
          /\ warns' = IF resolved /\ r.warned THEN {"length"} ELSE {}
          /\ n_steps' = IF stored THEN r.n ELSE n_steps
          /\ err' = e
          /\ pc' = IF e = NoErr THEN "loop" ELSE "error"
          /\ y' = IF e = NoErr
                  THEN [j \in 1..op.n_outs |-> AllocOut(op, im, j - 1, r.n)]
                  ELSE <<>>
          /\ i' = 0
          /\ calls' = <<>>
          /\ outs' = NoOuts
    /\ UNCHANGED <<op, prev, g, cmp, sc>>

\* Scan.scan, lines 506-557: iteration i of the step loop
ScanStep ==
    /\ pc = "loop"
    /\ i < n_steps
    /\ LET rs == Reads(op, seqs, seeds, y, n_steps, i)
           fn_args == FnArgs(rs, input.non_seqs)
           something == Fn(op.fn, fn_args, NumSeqArgs(op), op.n_outs)
           st == Update(op, seqs, seeds, y, i, something)
       IN IF ReadErr(rs) # NoErr
          THEN /\ err' = ReadErr(rs)
               /\ pc' = "error"
               /\ UNCHANGED <<seqs, seeds, y, calls, warns, i>>
          ELSE /\ calls' = Append(calls, fn_args)
               /\ warns' = warns \cup (IF \E x \in 1..Len(rs) : rs[x].warn
                                       THEN {"history"} ELSE {})
               /\ seqs' = st.seqs
               /\ seeds' = st.seeds
               /\ y' = st.y
               /\ err' = st.err
               /\ pc' = IF st.err = NoErr THEN "loop" ELSE "error"
               /\ i' = IF st.err = NoErr THEN i + 1 ELSE i
    /\ UNCHANGED <<op, input, n_steps, outs, prev, g, cmp, sc>>

\* what the caller finds in buffer b: an uninitialised cell holds gv
Returned(c, sq, sd, b, gv) ==
    [x \in 1..Len(BufOf(c, sq, sd, b)) |->
        IF x \in b.uninit THEN gv ELSE BufOf(c, sq, sd, b)[x]]

\* Scan.scan's return and perform's write to storage: lines 558, 469-471
ScanReturn(gv) ==
    /\ pc = "loop"
    /\ i >= n_steps
    /\ outs' = [j \in 1..op.n_outs |-> Returned(op, seqs, seeds, y[j], gv)]
    /\ pc' = "done"
    /\ UNCHANGED <<op, err, input, seqs, seeds, n_steps, i, y, calls, warns, prev, g, cmp, sc>>

\* a second perform of the same op on the same argument arrays
Again ==
    /\ pc = "done"
    /\ prev = NoRun
    /\ prev' = [op |-> op, input |-> input, outs |-> outs, n |-> n_steps]
    /\ pc' = "built"
    /\ UNCHANGED <<op, err, input, seqs, seeds, n_steps, i, y, calls, warns, outs, g, cmp, sc>>

\* Scan.__init__ of an op that differs from op in go_backwards only, to be
\* performed on the same argument arrays
Reverse ==
    /\ pc = "done"
    /\ prev = NoRun
    /\ prev' = [op |-> op, input |-> input, outs |-> outs, n |-> n_steps]
    /\ op' = [op EXCEPT !.go_backwards = ~@]
    /\ err' = InitCheck(op')
    /\ pc' = IF InitCheck(op') = NoErr THEN "built" ELSE "error"
    /\ UNCHANGED <<input, seqs, seeds, n_steps, i, y, calls, warns, outs, g, cmp, sc>>

(***************************************************************************)
(* Scan.grad, lines 561-598.                                               *)
(***************************************************************************)
\* lines 562-570: the branch taken is `if True`; k is the number of
\* non-sequence arguments of the node
Grad(k) ==
    /\ pc = "built"
    /\ prev = NoRun
    /\ g' = [kind |-> "grad",
             result |-> [x \in 1..(1 + op.n_seqs + op.n_outs + k) |-> "None"]]
    /\ warns' = warns \cup {"gradient"}
    /\ pc' = "gdone"
    /\ UNCHANGED <<op, err, input, seqs, seeds, n_steps, i, y, calls, outs, prev, cmp, sc>>

(***************************************************************************)
(* ScanGrad.perform, lines 668-775, on the arguments                       *)
(* [n_steps | g_outs | outs | seqs | seeds | non_seqs] of a completed      *)
(* forward run, the upstream gradient being 1 for every output row.        *)
(***************************************************************************)
\* xrange(hi, lo, -1)
XRangeDown(hi, lo) == [x \in 1..(hi - lo) |-> hi - x + 1]

\* lines 687-694
TheRange(n, d) ==
    LET lower_limit == n - d
    IN IF lower_limit > n - 1 THEN XRangeDown(n - 1, -1)
       ELSE IF lower_limit < -1 THEN XRangeDown(n - 1, -1)
       ELSE XRangeDown(n - 1, lower_limit)

\* line 708: shape[0] of the gradient buffer of every tapped seed
SeedSizeCheck(c, sds) ==
    IF \E j \in 0..(c.n_outs - 1) : j \in DOMAIN c.outs_taps /\ sds[j + 1].dim = 0
    THEN Exc("IndexError", 708) ELSE NoErr

\* lines 681-684: perform's g_outs is args[:n_outs] and its outs is
\* args[n_outs:2*n_outs], with n_steps at args[0]: outs[j] is the upstream
\* gradient of the last output for j = 0 and output j-1 after that
GradOuts(c, fwd, j) == IF j = 0 THEN [x \in 1..Len(fwd[c.n_outs]) |-> 1] ELSE fwd[j]
GradOutsScalar(c, j) ==
    IF j = 0 THEN c.keep_outputs[c.n_outs] = 1 ELSE c.keep_outputs[j] = 1

\* lines 728-738: the slice of output j for one tap at step ii
GradOutRead(c, sds, fwd, ii, j, tap) ==
    LET sz == Len(sds[j + 1].rows)
        k == ii + sz + tap
    IN IF ii + tap < 0
       THEN IF k < 0
            THEN IF sz = 0 THEN Exc("IndexError", 732) ELSE NoErr
            ELSE NoErr
       ELSE IF GradOutsScalar(c, j) \/ ~InRange(GradOuts(c, fwd, j), ii + tap)
            THEN Exc("IndexError", 738) ELSE NoErr

\* lines 711-742: the exception that ends step ii.  Line 719 reads `ins`,
\* a name the module never binds; line 740 indexes g_outs[0], which is the
\* scalar n_steps
GradStepErr(c, sds, fwd, ii) ==
    LET os == Slots(c.outs_taps, c.n_outs)
        bad == {x \in 1..Len(os) :
                  GradOutRead(c, sds, fwd, ii, os[x].j, os[x].tap) # NoErr}
    IN IF NumSeqArgs(c) > 0 THEN Exc("NameError", 719)
       ELSE IF bad # {}
            THEN GradOutRead(c, sds, fwd, ii, os[MinKey(bad)].j, os[MinKey(bad)].tap)
       ELSE Exc("IndexError", 740)

\* lines 668-708
ScanGradBegin ==
    /\ pc = "done"
    /\ prev = NoRun
    /\ g' = [kind |-> "scangrad",
             the_range |-> TheRange(n_steps, op.truncate_gradient),
             g_seqs |-> [j \in 1..op.n_seqs |-> [x \in 1..Len(input.seqs[j]) |-> 0]],
             g_seeds |-> [j \in 1..op.n_outs |->
                            [x \in 1..Len(input.seeds[j].rows) |-> 0]],
             g_non_seqs |-> [x \in 1..Len(input.non_seqs) |-> 0],
             visited |-> <<>>,
             result |-> <<>>]
    /\ err' = SeedSizeCheck(op, input.seeds)
    /\ pc' = IF SeedSizeCheck(op, input.seeds) = NoErr THEN "gloop" ELSE "error"
    /\ UNCHANGED <<op, input, seqs, seeds, n_steps, i, y, calls, warns, outs, prev, cmp, sc>>

\* lines 710-769: the next step of the_range; it never gets to grad_fn
ScanGradStep ==
    /\ pc = "gloop"
    /\ Len(g.visited) < Len(g.the_range)
    /\ err' = GradStepErr(op, input.seeds, outs, g.the_range[Len(g.visited) + 1])
    /\ pc' = "error"
    /\ UNCHANGED <<op, input, seqs, seeds, n_steps, i, y, calls, warns, outs, prev, g, cmp, sc>>

\* lines 772-775: `g_ins` is a name the function never binds
ScanGradReturn ==
    /\ pc = "gloop"
    /\ Len(g.visited) >= Len(g.the_range)
    /\ err' = Exc("NameError", 774)
    /\ pc' = "error"
    /\ UNCHANGED <<op, input, seqs, seeds, n_steps, i, y, calls, warns, outs, prev, g, cmp, sc>>

(***************************************************************************)
(* Scan.__eq__ and Scan.__hash__ applied to op and another Scan.           *)
(***************************************************************************)
\* op == other, hash(op) and hash(other): other is op itself (inst = 1) or a
\* second instance built from o (inst = 2); the tap maps of the two are
\* iterated in the orders so1, oo1 and so2, oo2
Compare(o, inst, so1, oo1, so2, oo2) ==
    /\ pc = "built"
    /\ prev = NoRun /\ input = NoInput
    /\ inst = 1 => o = op
    /\ cmp' = [other |-> o,
               same |-> inst = 1,
               eq |-> ScanEq(op, 1, o, inst),
               hash |-> ScanHash(op, 1, so1, oo1),
               other_hash |-> ScanHash(o, inst, so2, oo2),
               orders |-> <<so1, so2>>,
               taps_hash |-> <<hash_listsDictsTuples_dict(op.seqs_taps, so1),
                               hash_listsDictsTuples_dict(o.seqs_taps, so2)>>]
    /\ pc' = "compared"
    /\ UNCHANGED <<op, err, input, seqs, seeds, n_steps, i, y, calls, warns, outs, prev, g, sc>>

(***************************************************************************)
(* scan_make_inplace, lines 602-612, applied to the node of op.            *)
(***************************************************************************)
\* the replacement's arguments read op.force_gradient, which no Scan has;
\* where the condition of line 605 fails the optimizer returns False
scan_make_inplace ==
    /\ pc = "built"
    /\ prev = NoRun /\ input = NoInput
    /\ IF ~op.inplace /\ DOMAIN op.inplace_map # {}
       THEN /\ err' = Exc("AttributeError", 609)
            /\ pc' = "error"
       ELSE UNCHANGED <<err, pc>>
    /\ UNCHANGED <<op, input, seqs, seeds, n_steps, i, y, calls, warns, outs, prev, g, cmp, sc>>

(***************************************************************************)
(* scan(), lines 153-236: a call with k sequences and m initial states.    *)
(***************************************************************************)
scan(k, m, sequences_taps, outputs_taps) ==
    /\ pc \in {"new", "scanned"} \/ (pc = "error" /\ sc.ncalls > 0)
    /\ sc.ncalls < MaxCalls
    /\ LET st == IF sequences_taps.given THEN sequences_taps.d ELSE sc.sequences_taps
           ot == IF outputs_taps.given THEN outputs_taps.d ELSE sc.outputs_taps
           st2 == NormTaps(st, k, 0)
           ot2 == NormTaps(ot, m, -1)
           local_op == Cfg(k, m, Plain(st2), Plain(ot2), [j \in 1..m |-> 0],
                           EmptyMap, FALSE, FALSE, -1, "sum")
       IN /\ op' = local_op
          /\ err' = InitCheck(local_op)
          /\ pc' = IF InitCheck(local_op) = NoErr THEN "scanned" ELSE "error"
          /\ sc' = [sequences_taps |-> IF sequences_taps.given
                                       THEN sc.sequences_taps ELSE st2,
                    outputs_taps |-> IF outputs_taps.given
                                     THEN sc.outputs_taps ELSE ot2,
                    ncalls |-> sc.ncalls + 1,
                    last |-> [n_seqs |-> k, n_outs |-> m,
                              sequences_taps |-> sequences_taps,
                              outputs_taps |-> outputs_taps,
                              sequences_taps_after |-> st2,
                              outputs_taps_after |-> ot2]]
    /\ UNCHANGED <<input, seqs, seeds, n_steps, i, y, calls, warns, outs, prev, g, cmp>>

Next ==
    \/ \E c \in Cfgs : Construct(c)
    \/ pc = "built" /\ \E a \in ArgsFor(op) : Perform(a)
    \/ ScanStep
    \/ \E gv \in Garbage : ScanReturn(gv)
    \/ Again
    \/ Reverse
    \/ \E k \in 0..1 : Grad(k)
    \/ ScanGradBegin
    \/ ScanGradStep
    \/ ScanGradReturn
    \/ scan_make_inplace
    \/ \E k \in 0..MaxSeqs, m \in 1..2 :
          \E sequences_taps \in SeqTapArgs, outputs_taps \in OutTapArgs :
             scan(k, m, sequences_taps, outputs_taps)
    \/ pc = "built" /\ \E o \in Others(op), inst \in 1..2 :
          \E so1 \in KeyOrders(op.seqs_taps), oo1 \in KeyOrders(op.outs_taps),
             so2 \in KeyOrders(o.seqs_taps), oo2 \in KeyOrders(o.outs_taps) :
                Compare(o, inst, so1, oo1, so2, oo2)

Spec == Init /\ [][Next]_vars

(***************************************************************************)
(* The claims.                                                             *)
(***************************************************************************)
\* the tapped sequences of a configuration
Tapped(c) == {j \in 0..(c.n_seqs - 1) : j \in DOMAIN c.seqs_taps}

\* L_i = len(seq_i) + min(T_i) - max(0, max(T_i))
UsableLength(taps, len) ==
    len + MinOf(taps) - (IF MaxOf(taps) > 0 THEN MaxOf(taps) ELSE 0)

\* min over the tapped sequences i of L_i
MinUsable(c, a) ==
    LET ls == {UsableLength(c.seqs_taps[j], Len(a.seqs[j + 1])) : j \in Tapped(c)}
    IN CHOOSE l \in ls : \A m \in ls : l <= m

\* the latest perform got past the resolution of n_steps (line 463)
Resolved ==
    /\ input # NoInput
    /\ pc \in {"loop", "done", "gloop"} \/ (pc = "error" /\ err.line > 463)

\* the latest perform has ended and the reverse executor has not run
ForwardEnded ==
    /\ input # NoInput
    /\ pc \in {"done", "error"}
    /\ g.kind = "none"

\* C1: with no explicit step count (args[0] = 0) and at least one tapped
\* sequence, the resolved n_steps is the minimum over the tapped sequences of
\* the usable length len + min(T) - max(0, max(T)), whatever the lengths, the
\* tap sets and the order of the sequences.
C1_StepsAreMinUsable ==
    (Resolved /\ input.n0 = 0 /\ Tapped(op) # {})
        => n_steps = MinUsable(op, input)

\* C2: with an explicit step count n0 > 0 the resolved n_steps is n0 when
\* every tapped sequence has usable length >= n0 and min(n0, min_i L_i)
\* otherwise, a clip being logged as a length warning.
C2_ExplicitStepsClipped ==
    (Resolved /\ input.n0 > 0)
        => /\ n_steps = IF Tapped(op) = {} THEN input.n0
                        ELSE MinInt(input.n0, MinUsable(op, input))
           /\ n_steps < input.n0 => "length" \in warns

\* C3: a perform with no tapped sequence and no explicit step count ends in
\* the missing-step-count error (line 419) and never calls the step evaluator.
C3_NoTappedSequenceIsFatal ==
    (ForwardEnded /\ Tapped(op) = {} /\ input.n0 = 0)
        => (pc = "error" /\ err = Exc("ValueError", 419) /\ calls = <<>>)

\* some inplace entry names a sequence that has a negative tap
AliasToNegativeTap(c) ==
    \E o \in DOMAIN c.inplace_map :
        LET s == c.inplace_map[o]
        IN /\ s \in Tapped(c)
           /\ \E x \in DOMAIN c.seqs_taps[s] : c.seqs_taps[s][x] < 0

\* C4: the constructor of a configuration whose inplace map points an output
\* at a sequence with a negative tap raises in its check of the inplace map
\* (lines 276-285), so no perform of it ever starts and no step executes.
C4_AliasOnPastTapRejected ==
    (op # NoOp /\ AliasToNegativeTap(op))
        => /\ pc = "error"
           /\ err.exc \in {"ValueError", "KeyError"}
           /\ err.line >= 276 /\ err.line <= 285
           /\ input = NoInput /\ calls = <<>> /\ outs = NoOuts

C4_Witness ==
    /\ op # NoOp /\ AliasToNegativeTap(op)
    /\ pc = "error" /\ err = Exc("ValueError", 284)
    /\ op.inplace_map = (0 :> 0)

\* one state with tap [-1], no sequence, an explicit count n >= 1, the
\* evaluator new = old + 1 and seed 0
IsAccumulator(c, a) ==
    /\ c.n_seqs = 0 /\ c.n_outs = 1
    /\ c.outs_taps = (0 :> <<-1>>) /\ c.keep_outputs = <<0>>
    /\ c.fn = "sum1"
    /\ a.seeds = <<[dim |-> 0, rows |-> <<0>>]>> /\ a.non_seqs = <<>>
    /\ a.n0 >= 1

\* C5: the forward run of the accumulator never fails and returns exactly
\* [1, 2, ..., n]: row t holds t+1.
C5_AccumulatorCounts ==
    (input # NoInput /\ IsAccumulator(op, input))
        => /\ ~(ForwardEnded /\ pc = "error")
           /\ pc = "loop" => \A t \in 1..i : y[1].buf[t] = t
           /\ pc = "done" => outs = <<[t \in 1..input.n0 |-> t]>>

C5_Witness ==
    /\ input # NoInput /\ IsAccumulator(op, input)
    /\ pc = "done" /\ input.n0 = 3 /\ outs = << <<1, 2, 3>> >> /\ Len(calls) = 3

\* one sequence with tap [0], n = len(sequence), one state with tap [-1],
\* the evaluator new = old + seq_t and seed 0
IsPrefixSum(c, a) ==
    /\ c.n_seqs = 1 /\ c.n_outs = 1
    /\ c.seqs_taps = (0 :> <<0>>)
    /\ c.outs_taps = (0 :> <<-1>>) /\ c.keep_outputs = <<0>>
    /\ c.fn = "sum"
    /\ LocalInplaceMap(c) = EmptyMap
    /\ a.seeds = <<[dim |-> 0, rows |-> <<0>>]>> /\ a.non_seqs = <<>>
    /\ a.n0 \in {0, Len(a.seqs[1])}

\* C6: the forward run of the prefix sum never fails; going forward, row t
\* of its output is seq[0] + ... + seq[t]; in either direction the last row
\* is sum(sequence).
C6_PrefixSum ==
    (input # NoInput /\ IsPrefixSum(op, input))
        => LET sq == input.seqs[1]
           IN /\ ~(ForwardEnded /\ pc = "error")
              /\ pc = "done" =>
                   /\ Len(outs[1]) = Len(sq)
                   /\ ~op.go_backwards =>
                        \A t \in 1..Len(sq) : outs[1][t] = SumSeq(SubSeq(sq, 1, t))
                   /\ Len(sq) >= 1 => outs[1][Len(sq)] = SumSeq(sq)

C6_Witness ==
    /\ input # NoInput /\ IsPrefixSum(op, input)
    /\ pc = "done" /\ ~op.go_backwards
    /\ input.seqs = << <<2, 3, 1, 4>> >>
    /\ outs = << <<2, 5, 6, 10>> >>

\* the evaluator reads nothing but the tap-[0] slices of the sequences
SeqOnly(c) ==
    /\ c.fn = "map"
    /\ \A j \in DOMAIN c.seqs_taps : c.seqs_taps[j] = <<0>>
    /\ \A j \in 1..c.n_outs : c.keep_outputs[j] = 0
    /\ LocalInplaceMap(c) = EmptyMap

\* the run that just ended repeats the previous one in the other direction
ReversedRun ==
    /\ prev # NoRun
    /\ input = prev.input
    /\ op = [prev.op EXCEPT !.go_backwards = ~@]

\* C7: for an evaluator of the tap-[0] sequence slices only, the run in the
\* other direction on the same inputs completes with the same number of rows,
\* and its row i is row n-1-i of the first run's output.
C7_DirectionSymmetry ==
    (ReversedRun /\ SeqOnly(op) /\ pc \in {"done", "error"})
        => /\ pc = "done"
           /\ \A j \in 1..op.n_outs :
                /\ Len(outs[j]) = Len(prev.outs[j])
                /\ \A x \in 1..Len(outs[j]) :
                     outs[j][x] = prev.outs[j][Len(outs[j]) + 1 - x]

C7_Witness ==
    /\ ReversedRun /\ SeqOnly(op) /\ pc = "done"
    /\ op.go_backwards /\ n_steps >= 3
    /\ outs # prev.outs

\* the run that just ended repeats the previous one on the same op
RepeatedRun ==
    /\ prev # NoRun
    /\ input = prev.input
    /\ op = prev.op
    /\ pc = "done"

\* C8: two performs of one configuration on identical inputs, with no active
\* aliasing, produce identical outputs.
C8_Deterministic ==
    (RepeatedRun /\ LocalInplaceMap(op) = EmptyMap) => outs = prev.outs

\* the reverse executor has ended
ReverseEnded == g.kind = "scangrad" /\ pc \in {"gdone", "error"}

\* C9: with truncation depth d, 0 <= d < n-1, the reverse pass accumulates
\* nothing for a step with index < n-1-d; with d = -1 it visits every step
\* n-1..0 and returns the full gradient.
C9_Truncation ==
    ReverseEnded =>
        LET d == op.truncate_gradient
            n == n_steps
        IN /\ (0 <= d /\ d < n - 1)
                => \A x \in 1..Len(g.visited) : g.visited[x] >= n - 1 - d
           /\ d = -1
                => /\ pc = "gdone"
                   /\ g.visited = XRangeDown(n - 1, -1)

\* y_t = y_{t-1} * seq_t, seed 1, seq = [2,3,1,4], n = 4, no truncation
IsProductRun(c, a) ==
    /\ c.n_seqs = 1 /\ c.n_outs = 1
    /\ c.seqs_taps = (0 :> <<0>>)
    /\ c.outs_taps = (0 :> <<-1>>) /\ c.keep_outputs = <<0>>
    /\ c.fn = "prod" /\ ~c.go_backwards /\ c.truncate_gradient = -1
    /\ a.seqs = << <<2, 3, 1, 4>> >>
    /\ a.seeds = <<[dim |-> 0, rows |-> <<1>>]>>

\* C10: for the product recurrence the reverse executor returns the gradient
\* of sum(y) with respect to the sequence, [19, 12, 30, 6].
C10_ProductGradient ==
    (ReverseEnded /\ IsProductRun(op, input) /\ n_steps = 4)
        => (pc = "gdone" /\ g.result # <<>> /\ g.result[1] = <<19, 12, 30, 6>>)

\* some key of a tap map or some entry of the inplace map names a sequence
\* outside 0..n_seqs-1 or an output outside 0..n_outs-1
OutOfRange(c) ==
    \/ \E k \in DOMAIN c.seqs_taps : k \notin 0..(c.n_seqs - 1)
    \/ \E k \in DOMAIN c.outs_taps : k \notin 0..(c.n_outs - 1)
    \/ \E o \in DOMAIN c.inplace_map :
          \/ o \notin 0..(c.n_outs - 1)
          \/ c.inplace_map[o] \notin 0..(c.n_seqs - 1)

\* the constructor raised in its checks (lines 275-301) and nothing ran
RejectedAtBuild ==
    /\ pc = "error"
    /\ err.line >= 275 /\ err.line <= 301
    /\ input = NoInput /\ calls = <<>> /\ outs = NoOuts

\* C11: the constructor of a configuration with a sequence tap key, a state
\* tap key or an inplace entry outside the valid index range raises in its
\* checks, an index equal to n_seqs or n_outs included, and no step executes.
C11_OutOfRangeIndexRejected ==
    (op # NoOp /\ OutOfRange(op)) => RejectedAtBuild

\* some state tap list holds an offset > -1
HasFutureStateTap(c) ==
    \E k \in DOMAIN c.outs_taps :
        \E x \in DOMAIN c.outs_taps[k] : c.outs_taps[k][x] > -1

\* C12: the constructor of a configuration with a state tap offset > -1
\* raises in its checks and no step executes, so every constructed
\* configuration has all its state tap offsets <= -1.
C12_StateTapsArePast ==
    (op # NoOp /\ HasFutureStateTap(op)) => RejectedAtBuild

C12_Witness ==
    /\ op # NoOp /\ op.outs_taps = (0 :> <<-1, 0>>)
    /\ pc = "error" /\ err = Exc("ValueError", 300)
    /\ input = NoInput

\* some tapped state has a retention other than ALL and a tap list other
\* than [-1]
NonAllOtherTap(c) ==
    \E j \in 0..(c.n_outs - 1) :
        /\ j \in DOMAIN c.outs_taps
        /\ c.keep_outputs[j + 1] >= 1
        /\ c.outs_taps[j] # <<-1>>

\* C13: a run of a configuration that combines a retention other than ALL
\* with a state tap offset other than -1 ends in a NotImplementedError and
\* produces no outputs.
C13_NonAllOtherTapNotImplemented ==
    (ForwardEnded /\ NonAllOtherTap(op) /\ Len(calls) >= 1)
        => (pc = "error" /\ err.exc = "NotImplementedError" /\ outs = NoOuts)

\* some tapped state's seed array has fewer rows than its deepest tap needs
MissingHistory(c, a) ==
    \E j \in 0..(c.n_outs - 1) :
        /\ j \in DOMAIN c.outs_taps
        /\ NormSeed(c, j, a.seeds[j + 1]).dim >= 1
        /\ Len(a.seeds[j + 1].rows) < Abs(MinOf(c.outs_taps[j]))

\* C14: a run whose seed array is shorter than the deepest state tap never
\* aborts in the handling of the missing rows (lines 458-461, 534): it logs
\* the missing-history warning, passes zeros and executes all n_steps steps.
C14_MissingHistoryRecovers ==
    (ForwardEnded /\ MissingHistory(op, input))
        => /\ ~(pc = "error" /\ err.line \in {461, 534})
           /\ (pc = "done" /\ n_steps >= 1)
                => ("history" \in warns /\ Len(calls) = n_steps)

\* C16: Scan.grad on a configuration with an output of retention other than
\* ALL ends in an error; it returns no gradient list.
C16_NonAllGradFailsFast ==
    (g.kind = "grad" /\ \E j \in 1..op.n_outs : op.keep_outputs[j] >= 1)
        => (pc = "error" /\ g.result = <<>>)

\* C15: two Scans compare equal only if every field of their configurations
\* is equal; two that compare equal have equal hashes; and the hash of a tap
\* map is the same whatever order its entries are iterated in.
C15_EqualityAndHash ==
    cmp # NoCmp =>
        /\ cmp.eq => op = cmp.other
        /\ cmp.eq => cmp.hash = cmp.other_hash
        /\ op.seqs_taps = cmp.other.seqs_taps => cmp.taps_hash[1] = cmp.taps_hash[2]

C15_Witness ==
    /\ cmp # NoCmp /\ cmp.eq
    /\ Cardinality(DOMAIN op.seqs_taps) = 2
    /\ cmp.orders[1] # cmp.orders[2]
    /\ cmp.hash = cmp.other_hash

\* the calls recorded are those of a perform of op
InRun == input # NoInput /\ pc \in {"loop", "done", "error", "gloop", "gdone"}

\* some output is written into an argument array
ActiveAlias(c) ==
    \E j \in 0..(c.n_outs - 1) :
        j \in DOMAIN LocalInplaceMap(c) /\ LocalInplaceMap(c)[j] >= 0

\* the value the evaluator returned for state j at step s
ReturnedAt(s, j) == Fn(op.fn, calls[s + 1], NumSeqArgs(op), op.n_outs)[j + 1]

\* the slice of state j for tap t at step s: the result of step s+t, else
\* row s + seed_length + t of the seed, else zero
StateSlice(s, j, t) ==
    LET rows == input.seeds[j + 1].rows
    IN IF s + t >= 0 THEN ReturnedAt(s + t, j)
       ELSE IF s + Len(rows) + t >= 0 THEN rows[s + Len(rows) + t + 1]
       ELSE 0

\* the 0-based row of a sequence that holds v
RowOf(sq, v) == (CHOOSE r \in 1..Len(sq) : sq[r] = v) - 1

C18_BackwardTraversal ==
    (InRun /\ op.go_backwards /\ ~ActiveAlias(op)) =>
        /\ \A s \in 1..Len(calls) :
              LET ss == Slots(op.seqs_taps, op.n_seqs)
                  os == Slots(op.outs_taps, op.n_outs)
              IN /\ \A x \in 1..Len(ss) :
                       calls[s][x] =
                          Row(input.seqs[ss[x].j + 1],
                              (n_steps - 1 - (s - 1))
                                  - MinOf(op.seqs_taps[ss[x].j]) + ss[x].tap)
                 /\ \A x \in 1..Len(os) :
                       op.keep_outputs[os[x].j + 1] < 1
                          => calls[s][Len(ss) + x]
                                = StateSlice(s - 1, os[x].j, os[x].tap)
        /\ pc \in {"loop", "done"} =>
              \A j \in 1..op.n_outs :
                 op.keep_outputs[j] < 1 =>
                    /\ y[j].uninit = {x \in 1..n_steps : x > i}
                    /\ \A s \in 1..i : y[j].buf[s] = ReturnedAt(s - 1, j - 1)

C18_Witness ==
    /\ InRun /\ op.go_backwards /\ ~ActiveAlias(op)
    /\ pc = "done" /\ n_steps = 3
    /\ op.seqs_taps = (0 :> <<-1>>) /\ op.keep_outputs = <<0>>
    /\ calls[1][1] = 1 /\ calls[3][1] = 2

\* C19: a completed forward run of n_steps steps returns, in the order of
\* the states, for ALL retention a buffer of exactly n_steps rows whose row i
\* is the evaluator's result of step i, and for LAST retention the result of
\* step n_steps-1; with a retention above LAST the run ends in a
\* NotImplementedError.
C19_RetentionOutputs ==
    (ForwardEnded /\ Resolved) =>
        \A j \in 1..op.n_outs :
            /\ (op.keep_outputs[j] < 1 /\ pc = "done") =>
                  /\ Len(outs[j]) = n_steps
                  /\ \A s \in 1..n_steps : outs[j][s] = ReturnedAt(s - 1, j - 1)
            /\ (op.keep_outputs[j] = 1 /\ pc = "done" /\ n_steps >= 1) =>
                  outs[j] = <<ReturnedAt(n_steps - 1, j - 1)>>
            /\ op.keep_outputs[j] > 1 =>
                  (pc = "error" /\ err.exc = "NotImplementedError")

\* the steps of the claimed reverse pass: n-1 down to max(-1, n-1-d),
\* the lower end excluded; every step for d = -1
ClaimedVisits(n, d) ==
    IF d = -1 THEN XRangeDown(n - 1, -1)
    ELSE XRangeDown(n - 1, IF n - 1 - d > -1 THEN n - 1 - d ELSE -1)

\* C20: the reverse pass invokes the backward evaluator at exactly the steps
\* i with max(-1, n-1-d) < i <= n-1, in decreasing order and once each: all
\* n steps for d = -1, the d most recent steps for 0 <= d <= n.
C20_ReverseVisits ==
    ReverseEnded => g.visited = ClaimedVisits(n_steps, op.truncate_gradient)

\* step ii of the reverse range reads, for some state tap, a seed row k >= 0
SeedRowRead(c, sds, ii) ==
    \E j \in 0..(c.n_outs - 1) :
        /\ j \in DOMAIN c.outs_taps
        /\ \E x \in DOMAIN c.outs_taps[j] :
              /\ ii + c.outs_taps[j][x] < 0
              /\ ii + Len(sds[j + 1].rows) + c.outs_taps[j][x] >= 0

\* C21: the gradient buffers start at zero, and at every step of the reverse
\* range where a state tap falls on a seed row k >= 0 (row 0 included) the
\* backward evaluator is invoked and its contribution is added to row k of
\* the seed-gradient buffer, so the pass ends with the gradients returned.
C21_SeedGradientAccumulated ==
    ReverseEnded =>
        /\ \A j \in 1..op.n_seqs : \A x \in 1..Len(g.g_seqs[j]) :
              g.visited = <<>> => g.g_seqs[j][x] = 0
        /\ \A x \in 1..Len(g.the_range) :
              SeedRowRead(op, input.seeds, g.the_range[x])
                 => (\E v \in 1..Len(g.visited) : g.visited[v] = g.the_range[x])
                      /\ pc = "gdone"

\* C22: after the reverse pass the gradient of every non-sequence argument
\* is returned, behind the gradients of the sequences and of the seeds, and
\* every step of the reverse range has contributed to it.
C22_NonSeqGradientSummed ==
    (ReverseEnded /\ input.non_seqs # <<>>) =>
        /\ pc = "gdone"
        /\ Len(g.result) = op.n_seqs + op.n_outs + Len(input.non_seqs)
        /\ Len(g.visited) = Len(g.the_range)

\* the outputs that the inplace map points at a sequence, passed by the
\* constructor's check
SafeAliases(c) ==
    {o \in 0..(c.n_outs - 1) :
        /\ o \in DOMAIN c.inplace_map
        /\ c.inplace_map[o] \in 0..(c.n_seqs - 1)
        /\ c.keep_outputs[o + 1] < 1}

\* C23: with inplace enabled, an aliased output is the buffer of its
\* sequence: step i's result is written to row i of the sequence and the
\* returned output is that buffer; with inplace not enabled the map is
\* ignored: the output has a buffer of its own and the sequence is unchanged.
C23_InplaceWrites ==
    (InRun /\ pc \in {"loop", "done"}) =>
        \A o \in SafeAliases(op) :
            LET s == op.inplace_map[o]
            IN IF op.inplace
               THEN /\ y[o + 1].alias = s
                    /\ \A r \in 1..i : seqs[s + 1][r] = ReturnedAt(r - 1, o)
                    /\ pc = "done" => outs[o + 1] = seqs[s + 1]
               ELSE /\ y[o + 1].alias = -1
                    /\ seqs[s + 1] = input.seqs[s + 1]

C23_Witness ==
    /\ InRun /\ pc = "done"
    /\ op.inplace /\ SafeAliases(op) = {0}
    /\ n_steps >= 2
    /\ seqs[1] # input.seqs[1]
    /\ outs[1] = seqs[1]

\* the sequences some output is written into during the run
AliasedSeqs(c) ==
    IF c.inplace THEN {c.inplace_map[o] : o \in SafeAliases(c)} ELSE {}

\* the row of sequence j read for a tap at loop step s
ClaimedSeqRow(c, n, s, j, tap) ==
    (IF c.go_backwards THEN n - 1 - s ELSE s) - MinOf(c.seqs_taps[j]) + tap

\* C24: in a run with an active alias accepted by the constructor, every
\* slice of the aliased sequence passed to the evaluator is the value the
\* caller put in that row: no step reads a row an earlier step overwrote,
\* forwards or backwards.
C24_AliasReadsOriginal ==
    InRun =>
        \A s \in 1..Len(calls) :
            LET ss == Slots(op.seqs_taps, op.n_seqs)
            IN \A x \in 1..Len(ss) :
                  ss[x].j \in AliasedSeqs(op) =>
                     calls[s][x] =
                        Row(input.seqs[ss[x].j + 1],
                            ClaimedSeqRow(op, n_steps, s - 1, ss[x].j, ss[x].tap))

\* C25: whatever n_steps perform resolved, at every step i < n_steps and for
\* every tap of every tapped sequence j the row read is inside the sequence:
\* 0 <= k < len(seq_j).
C25_SequenceReadsInBounds ==
    (pc = "loop" /\ i < n_steps) =>
        LET ss == Slots(op.seqs_taps, op.n_seqs)
        IN \A x \in 1..Len(ss) :
              /\ 0 <= ClaimedSeqRow(op, n_steps, i, ss[x].j, ss[x].tap)
              /\ ClaimedSeqRow(op, n_steps, i, ss[x].j, ss[x].tap)
                    < Len(seqs[ss[x].j + 1])

\* C26: a call of scan() that omits a tap dictionary builds its op with the
\* default taps of that call alone, {i: [0]} for its k sequences and
\* {j: [-1]} for its m states, and succeeds, whatever calls came before; a
\* tap dictionary passed by the caller is left as the caller made it.
C26_BuildsIndependent ==
    sc.ncalls > 0 =>
        /\ ~sc.last.sequences_taps.given =>
              op.seqs_taps = [x \in 0..(sc.last.n_seqs - 1) |-> <<0>>]
        /\ ~sc.last.outputs_taps.given =>
              op.outs_taps = [x \in 0..(sc.last.n_outs - 1) |-> <<-1>>]
        /\ (~sc.last.sequences_taps.given /\ ~sc.last.outputs_taps.given) =>
              pc = "scanned"
        /\ sc.last.sequences_taps.given =>
              sc.last.sequences_taps_after = sc.last.sequences_taps.d
        /\ sc.last.outputs_taps.given =>
              sc.last.outputs_taps_after = sc.last.outputs_taps.d

=============================================================================
